---- MODULE Spec2Model ----
(***************************************************************************)
(* A model of the two classes of the repository:                           *)
(*   - ModelSubmissionHandler (submitModel, submitModelDirectly), with the  *)
(*     services it consumes (model factory, serializer, layout engine,      *)
(*     validator, command stack) as nondeterministic environments;          *)
(*   - WorkflowDiagramConfiguration (typeMapping, shapeTypeHints,           *)
(*     edgeTypeHints getters) with callers that keep and change the tables  *)
(*     the getters return.                                                  *)
(* Spec is the handler's state machine, ConfigSpec the configuration's.     *)
(***************************************************************************)
EXTENDS Integers, Sequences, FiniteSets, TLC

VARIABLES
    diagramConfiguration, \* the injected DiagramConfiguration: its three flags
    layoutEngine,         \* TRUE iff a LayoutEngine is bound (optional injection)
    validator,            \* TRUE iff a ModelValidator is bound (optional injection)
    modelState,           \* the injected ModelState: [root |-> the current GModelRoot]
    commandStack,         \* the injected CommandStack: [isDirty |-> BOOLEAN]
    calls,                \* one record per call of submitModel / submitModelDirectly
    tables,               \* the objects the configuration's getters have returned so far
    lastReturned,         \* per getter, what its latest access returned, as it was returned
    accesses,             \* per getter, how many times it was read
    builds,               \* per getter, how many times its table was constructed
    mutations             \* how many changes callers made to returned tables

handlerVars == <<diagramConfiguration, layoutEngine, validator, modelState, commandStack, calls>>
configVars == <<tables, lastReturned, accesses, builds, mutations>>
vars == <<diagramConfiguration, layoutEngine, validator, modelState, commandStack, calls,
          tables, lastReturned, accesses, builds, mutations>>

-----------------------------------------------------------------------------
(* Bounds *)

\* number of submitModel / submitModelDirectly calls in one behaviour
MaxCalls == 2
\* the revision the root may carry when the handler is first used ranges over 0..MaxInitRevision
MaxInitRevision == 0
\* number of reads of the configuration's getters in one behaviour
MaxAccesses == 3
\* number of changes callers make to the tables they were handed
MaxMutations == 2

CallIds == 1..MaxCalls
\* the bounds of the root's elements: as the source model holds them, or as the layout
\* engine arranged them
Bounds == {"source", "arranged"}
Reasons == {"undefined", "operation"}

-----------------------------------------------------------------------------
(* Values *)

\* an optional number: <<>> is undefined, <<n>> is n
Undefined == <<>>

\* GModelRoot as far as the handler reads or writes it: its revision (optional) and
\* the bounds of its elements
GModelRoot(revision, bounds) == [revision |-> revision, bounds |-> bounds]

\* GModelSerializer.createSchema: a detached copy of the root, which later changes of
\* the root do not reach
createSchema(root) == [type |-> "graph", revision |-> root.revision, bounds |-> root.bounds]

\* serializeGModel(): the schema of the root the model state holds at the time of the call
serializeGModel(state) == createSchema(state.root)

\* (revision ?? 0)
RevisionOrZero(revision) == IF revision = Undefined THEN 0 ELSE revision[1]

NoSchema == [type |-> "none", revision |-> Undefined, bounds |-> "source"]
NoMarkers == [validated |-> NoSchema]

\* the protocol's action constructors
RequestBoundsAction(root) == [kind |-> "requestBounds", newRoot |-> root]
SetModelAction(root) == [kind |-> "setModel", newRoot |-> root]
UpdateModelAction(root, animate) == [kind |-> "updateModel", newRoot |-> root, animate |-> animate]
SetDirtyStateAction(isDirty, reason) == [kind |-> "setDirtyState", isDirty |-> isDirty, reason |-> reason]
SetMarkersAction(markers, reason) == [kind |-> "setMarkers", markers |-> markers, reason |-> reason]

\* ModelValidator.validate([root], LIVE): the markers of the root it is handed
validate(root) == [validated |-> createSchema(root)]

\* GModelFactory.createModel(): the model state's root after the factory rebuilt the model.
\* The factory keeps the root, or installs a new one whose revision is carried over or unset.
createModel(state) ==
    { [state EXCEPT !.root = GModelRoot(rev, b)] :
        rev \in {state.root.revision, Undefined}, b \in Bounds }

\* LayoutEngine.layout(): the model state after the engine laid the root out
layout(state) == [state EXCEPT !.root.bounds = "arranged"]

-----------------------------------------------------------------------------
(* Calls *)

NoSteps == [createModel |-> 0, serialize |-> 0, layout |-> 0, validate |-> 0]

\* a call not yet made
IdleCall ==
    [ kind |-> "none",            \* submitModel | submitModelDirectly
      pc |-> "idle",              \* idle | awaitLayout | awaitValidate | done | failed
      reason |-> "undefined",     \* the reason parameter
      root |-> NoSchema,          \* const root
      result |-> <<>>,            \* const result: Action[]
      markers |-> NoMarkers,      \* what the pending validate() call will resolve to
      returned |-> <<>>,          \* <<>> while nothing is returned, <<list>> once returned
      failedStep |-> "none",      \* the service call that threw or rejected
      invoked |-> NoSteps,        \* how often each service was invoked by this call
      created |-> Undefined,      \* root.revision right after createModel()
      postLayout |-> NoSchema,    \* schema of the root when layout() completed
      afterSubmit |-> FALSE ]     \* the call began after a submitModel call had returned

\* return result
Return(call, result) == [call EXCEPT !.pc = "done", !.result = result, !.returned = <<result>>]

\* (mutant of Throw) the exception is caught and the actions pushed so far are returned
ThrowCaught(call, step) == [Return(call, call.result) EXCEPT !.failedStep = step]

\* an exception of a service call: neither method has a try/catch, so it ends the call
Throw(call, step) == [call EXCEPT !.pc = "failed", !.failedStep = step]

Invoke(call, step) == [call EXCEPT !.invoked[step] = @ + 1]

SubmitReturned == \E d \in CallIds : calls[d].kind = "submitModel" /\ calls[d].pc = "done"

\* calls are numbered in the order they are made
CanBegin(c) == calls[c].pc = "idle" /\ (IF c = 1 THEN TRUE ELSE calls[c - 1].pc # "idle")

\* The handler keeps nothing of a call that has ended: what the call returned or threw is
\* handed to its caller in the step that ends it.  Its record is whole in the state that
\* step reaches and is cut to its kind and outcome by the next step.
Ended(call) == [IdleCall EXCEPT !.kind = call.kind, !.pc = call.pc]

\* the calls with the ended ones cut
Cut == [d \in CallIds |-> IF calls[d].pc \in {"done", "failed"} THEN Ended(calls[d]) ELSE calls[d]]

\* the calls after call c moved to frame
Step(c, frame) == [Cut EXCEPT ![c] = frame]

Begin(c, kind, reason) ==
    [calls[c] EXCEPT !.kind = kind, !.reason = reason, !.afterSubmit = SubmitReturned]

-----------------------------------------------------------------------------
(* ModelSubmissionHandler *)

LayoutKinds == {"AUTOMATIC", "MANUAL"}

\* (mutant of incrementRevision) the revision is defaulted but not incremented
incrementRevisionOmitted(state) == [state EXCEPT !.root.revision = <<RevisionOrZero(@)>>]

\* this.modelState.root.revision = (this.modelState.root.revision ?? 0) + 1
incrementRevision(state) == [state EXCEPT !.root.revision = <<RevisionOrZero(@) + 1>>]

\* (mutant of submitModelActions) the needsClientLayout test is inverted
submitModelActionsInverted(root, needsClientLayout, isDirty, reason) ==
    IF ~needsClientLayout
    THEN <<RequestBoundsAction(root), SetDirtyStateAction(isDirty, reason)>>
    ELSE <<SetModelAction(root)>>

\* the list submitModel returns for the serialized root
submitModelActions(root, needsClientLayout, isDirty, reason) ==
    IF needsClientLayout
    THEN <<RequestBoundsAction(root), SetDirtyStateAction(isDirty, reason)>>
    ELSE <<SetModelAction(root)>>

\* the model action submitModelDirectly pushes first
modelAction(root, animatedUpdate) ==
    IF root.revision = <<0>>
    THEN SetModelAction(root)
    ELSE UpdateModelAction(root, animatedUpdate)

\* (mutant of directActions) the dirty state is pushed whatever needsClientLayout is
directActionsAlwaysDirty(root, configuration, isDirty, reason) ==
    <<modelAction(root, configuration.animatedUpdate), SetDirtyStateAction(isDirty, reason)>>

\* result after the two pushes that precede the validator branch
directActions(root, configuration, isDirty, reason) ==
    <<modelAction(root, configuration.animatedUpdate)>>
        \o (IF ~configuration.needsClientLayout
            THEN <<SetDirtyStateAction(isDirty, reason)>>
            ELSE <<>>)

\* whether submitModelDirectly calls and awaits layoutEngine.layout()
runsServerLayout(configuration, engine) == configuration.layoutKind = "AUTOMATIC" /\ engine

\* submitModelDirectly from the end of the layout branch to the next suspension or the return.
\* The model action is built from the call's own const root; validate() is handed
\* this.modelState.root as it is now, and its markers are those of that root.
afterLayout(call, state, stack) ==
    LET result == directActions(call.root, diagramConfiguration, stack.isDirty, call.reason)
    IN  IF validator
        THEN Invoke([call EXCEPT !.pc = "awaitValidate",
                                 !.result = result,
                                 !.markers = validate(state.root)], "validate")
        ELSE Return(call, result)

\* submitModel(reason): synchronous, so one step from the call to its return or its exception
submitModel(c, reason) ==
    /\ CanBegin(c)
    /\ LET call0 == Invoke(Begin(c, "submitModel", reason), "createModel")
       IN  \/ /\ calls' = Step(c, Throw(call0, "createModel"))
              /\ UNCHANGED modelState
           \/ \E created \in createModel(modelState) :
                LET incremented == incrementRevision(created)
                    call1 == Invoke([call0 EXCEPT !.created = created.root.revision], "serialize")
                    root == serializeGModel(incremented)
                IN  /\ modelState' = incremented
                    /\ \/ calls' = Step(c, Throw(call1, "serialize"))
                       \/ calls' = Step(c,
                              Return([call1 EXCEPT !.root = root],
                                     submitModelActions(root, diagramConfiguration.needsClientLayout,
                                                        commandStack.isDirty, reason)))
    /\ UNCHANGED <<diagramConfiguration, layoutEngine, validator, commandStack>>
    /\ UNCHANGED configVars

\* submitModelDirectly(reason), from the call to its first suspension, return or exception
submitModelDirectly(c, reason) ==
    /\ CanBegin(c)
    /\ LET call0 == Invoke(Begin(c, "submitModelDirectly", reason), "serialize")
           call1 == [call0 EXCEPT !.root = serializeGModel(modelState)]
       IN  \/ calls' = Step(c, Throw(call0, "serialize"))
           \/ /\ runsServerLayout(diagramConfiguration, layoutEngine)
              /\ calls' = Step(c, Invoke([call1 EXCEPT !.pc = "awaitLayout"], "layout"))
           \/ /\ ~runsServerLayout(diagramConfiguration, layoutEngine)
              /\ calls' = Step(c, afterLayout(call1, modelState, commandStack))
    /\ UNCHANGED <<diagramConfiguration, layoutEngine, validator, modelState, commandStack>>
    /\ UNCHANGED configVars

\* await this.layoutEngine.layout() settles: the layout is applied, or the promise rejects
layoutSettled(c) ==
    /\ calls[c].pc = "awaitLayout"
    /\ \/ /\ calls' = Step(c, Throw(calls[c], "layout"))
          /\ UNCHANGED modelState
       \/ LET laid == layout(modelState)
          IN  /\ modelState' = laid
              /\ calls' = Step(c, afterLayout([calls[c] EXCEPT !.postLayout = createSchema(laid.root)],
                                              laid, commandStack))
    /\ UNCHANGED <<diagramConfiguration, layoutEngine, validator, commandStack>>
    /\ UNCHANGED configVars

\* await this.validator.validate(...) settles: the markers are pushed, or the promise rejects
validateSettled(c) ==
    /\ calls[c].pc = "awaitValidate"
    /\ \/ calls' = Step(c, Throw(calls[c], "validate"))
       \/ calls' = Step(c, Return(calls[c],
                                  Append(calls[c].result, SetMarkersAction(calls[c].markers, "LIVE"))))
    /\ UNCHANGED <<diagramConfiguration, layoutEngine, validator, modelState, commandStack>>
    /\ UNCHANGED configVars

\* the command stack becomes dirty (a command ran) or clean (the model was saved)
commandStackChanges ==
    /\ commandStack' = [commandStack EXCEPT !.isDirty = ~@]
    /\ calls' = Cut
    /\ UNCHANGED <<diagramConfiguration, layoutEngine, validator, modelState>>
    /\ UNCHANGED configVars

-----------------------------------------------------------------------------
(* Element type ids.  A type id is a string of ':'-separated segments; it is *)
(* kept as the sequence of its segments, so 'task:manual' is <<"task", "manual">>. *)

\* DefaultTypes of the protocol package
GRAPH == <<"graph">>
NODE == <<"node">>
EDGE == <<"edge">>
PORT == <<"port">>
LABEL == <<"label">>
COMPARTMENT == <<"comp">>
BUTTON == <<"button">>
ISSUE_MARKER == <<"marker">>
HTML == <<"html">>
PRE_RENDERED == <<"pre-rendered">>
FOREIGN_OBJECT == <<"foreign-object">>

\* ModelTypes of the workflow example (./util/model-types)
LABEL_HEADING == <<"label", "heading">>
LABEL_TEXT == <<"label", "text">>
COMP_HEADER == <<"comp", "header">>
LABEL_ICON == <<"label", "icon">>
WEIGHTED_EDGE == <<"edge", "weighted">>
ICON == <<"icon">>
ACTIVITY_NODE == <<"activityNode">>
DECISION_NODE == ACTIVITY_NODE \o <<"decision">>
MERGE_NODE == ACTIVITY_NODE \o <<"merge">>
JOIN_NODE == ACTIVITY_NODE \o <<"join">>
FORK_NODE == ACTIVITY_NODE \o <<"fork">>
TASK == <<"task">>
MANUAL_TASK == TASK \o <<"manual">>
AUTOMATED_TASK == TASK \o <<"automated">>
CATEGORY == <<"category">>
STRUCTURE == <<"struct">>

\* Map.prototype.set
MapSet(map, key, value) ==
    [k \in (DOMAIN map) \cup {key} |-> IF k = key THEN value ELSE map[k]]

EmptyMap == [k \in {} |-> "none"]

\* getDefaultMapping(): a new map of the default type ids to the default classes
getDefaultMapping ==
    LET m1 == MapSet(EmptyMap, GRAPH, "GGraph")
        m2 == MapSet(m1, NODE, "GNode")
        m3 == MapSet(m2, EDGE, "GEdge")
        m4 == MapSet(m3, PORT, "GPort")
        m5 == MapSet(m4, LABEL, "GLabel")
        m6 == MapSet(m5, COMPARTMENT, "GCompartment")
        m7 == MapSet(m6, BUTTON, "GButton")
        m8 == MapSet(m7, ISSUE_MARKER, "GIssueMarker")
        m9 == MapSet(m8, HTML, "GHtmlRoot")
        m10 == MapSet(m9, PRE_RENDERED, "GPreRenderedElement")
    IN  MapSet(m10, FOREIGN_OBJECT, "GForeignObjectElement")

-----------------------------------------------------------------------------
(* WorkflowDiagramConfiguration *)

\* (mutant of typeMapping) the entry of TASK is left out
typeMappingWithoutTask ==
    LET m0 == getDefaultMapping
        m1 == MapSet(m0, LABEL_HEADING, "GLabel")
        m2 == MapSet(m1, LABEL_TEXT, "GLabel")
        m3 == MapSet(m2, COMP_HEADER, "GCompartment")
        m4 == MapSet(m3, LABEL_ICON, "GLabel")
        m5 == MapSet(m4, WEIGHTED_EDGE, "GEdge")
        m6 == MapSet(m5, ICON, "GCompartment")
        m7 == MapSet(m6, ACTIVITY_NODE, "ActivityNode")
        m9 == MapSet(m7, CATEGORY, "Category")
    IN  MapSet(m9, STRUCTURE, "GCompartment")

\* the body of get typeMapping()
typeMapping ==
    LET m0 == getDefaultMapping
        m1 == MapSet(m0, LABEL_HEADING, "GLabel")
        m2 == MapSet(m1, LABEL_TEXT, "GLabel")
        m3 == MapSet(m2, COMP_HEADER, "GCompartment")
        m4 == MapSet(m3, LABEL_ICON, "GLabel")
        m5 == MapSet(m4, WEIGHTED_EDGE, "GEdge")
        m6 == MapSet(m5, ICON, "GCompartment")
        m7 == MapSet(m6, ACTIVITY_NODE, "ActivityNode")
        m8 == MapSet(m7, TASK, "TaskNode")
        m9 == MapSet(m8, CATEGORY, "Category")
    IN  MapSet(m9, STRUCTURE, "GCompartment")

createDefaultShapeTypeHint(elementId) ==
    [ elementTypeId |-> elementId, repositionable |-> TRUE, deletable |-> TRUE,
      resizable |-> TRUE, reparentable |-> TRUE ]

createDefaultEdgeTypeHint(elementId) ==
    [ elementTypeId |-> elementId, repositionable |-> TRUE, deletable |-> TRUE, routable |-> TRUE,
      sourceElementTypeIds |->
          <<MANUAL_TASK, AUTOMATED_TASK, DECISION_NODE, MERGE_NODE, FORK_NODE, JOIN_NODE, CATEGORY>>,
      targetElementTypeIds |->
          <<MANUAL_TASK, AUTOMATED_TASK, DECISION_NODE, MERGE_NODE, FORK_NODE, JOIN_NODE, CATEGORY>> ]

\* the body of get shapeTypeHints()
shapeTypeHints ==
    << createDefaultShapeTypeHint(MANUAL_TASK),
       createDefaultShapeTypeHint(AUTOMATED_TASK),
       createDefaultShapeTypeHint(FORK_NODE),
       createDefaultShapeTypeHint(JOIN_NODE),
       createDefaultShapeTypeHint(DECISION_NODE),
       createDefaultShapeTypeHint(MERGE_NODE),
       [ elementTypeId |-> CATEGORY, repositionable |-> TRUE, deletable |-> TRUE,
         resizable |-> TRUE, reparentable |-> TRUE,
         containableElementTypeIds |->
             <<DECISION_NODE, MERGE_NODE, FORK_NODE, JOIN_NODE, AUTOMATED_TASK, MANUAL_TASK, CATEGORY>> ] >>

\* the body of get edgeTypeHints()
edgeTypeHints ==
    << createDefaultEdgeTypeHint(EDGE),
       [ elementTypeId |-> WEIGHTED_EDGE, repositionable |-> TRUE, deletable |-> TRUE,
         routable |-> TRUE,
         sourceElementTypeIds |-> <<DECISION_NODE>>,
         targetElementTypeIds |-> <<MANUAL_TASK, AUTOMATED_TASK, FORK_NODE, JOIN_NODE>> ] >>

Getters == {"typeMapping", "shapeTypeHints", "edgeTypeHints"}

\* what a getter's body evaluates to
getterBody(getter) ==
    CASE getter = "typeMapping" -> typeMapping
      [] getter = "shapeTypeHints" -> shapeTypeHints
      [] getter = "edgeTypeHints" -> edgeTypeHints

\* (mutant of readGetter) the table is built on the first read and kept in a field
readGetterCached(getter, heap) ==
    IF \E i \in DOMAIN heap : heap[i].getter = getter
    THEN [ heap |-> heap,
           ref |-> CHOOSE i \in DOMAIN heap : heap[i].getter = getter,
           built |-> 0 ]
    ELSE [ heap |-> Append(heap, [getter |-> getter, value |-> getterBody(getter), changed |-> FALSE]),
           ref |-> Len(heap) + 1,
           built |-> 1 ]

\* one read of a getter against the heap of tables handed out so far: the getters are
\* plain accessors with no backing field, so every read runs the body and returns a new
\* object.  [heap: the heap after the read, ref: the object returned, built: constructions]
readGetter(getter, heap) ==
    [ heap |-> Append(heap, [getter |-> getter, value |-> getterBody(getter), changed |-> FALSE]),
      ref |-> Len(heap) + 1,
      built |-> 1 ]

\* a caller reads configuration.<getter>
access(getter) ==
    /\ accesses["typeMapping"] + accesses["shapeTypeHints"] + accesses["edgeTypeHints"] < MaxAccesses
    /\ LET read == readGetter(getter, tables)
       IN  /\ tables' = read.heap
           /\ lastReturned' = [lastReturned EXCEPT ![getter] =
                  << [ value |-> read.heap[read.ref].value,
                       afterChange |-> \E i \in DOMAIN tables :
                                          tables[i].getter = getter /\ tables[i].changed ] >>]
           /\ builds' = [builds EXCEPT ![getter] = @ + read.built]
    /\ accesses' = [accesses EXCEPT ![getter] = @ + 1]
    /\ UNCHANGED mutations
    /\ UNCHANGED handlerVars

\* an array without its element i (Array.prototype.splice(i, 1))
Splice(array, i) == [j \in 1..(Len(array) - 1) |-> IF j < i THEN array[j] ELSE array[j + 1]]

\* a map without the key (Map.prototype.delete)
MapDelete(map, key) == [k \in (DOMAIN map) \ {key} |-> map[k]]

\* the ways a caller can change a table it holds: a map loses one of the keys the
\* diagram's elements resolve to, or all keys (Map.prototype.clear); an array loses its
\* last element (Array.prototype.pop), or its first hint is made undeletable
changed(table) ==
    IF table.getter = "typeMapping"
    THEN { MapDelete(table.value, k) :
             k \in (DOMAIN table.value) \cap {TASK, ACTIVITY_NODE, CATEGORY, EDGE, WEIGHTED_EDGE} }
            \cup {EmptyMap}
    ELSE IF table.value = <<>>
    THEN {}
    ELSE { Splice(table.value, Len(table.value)),
           [table.value EXCEPT ![1].deletable = FALSE] }

\* a caller changes a table it was handed earlier
callerChanges(ref) ==
    /\ mutations < MaxMutations
    /\ \E value \in changed(tables[ref]) \ {tables[ref].value} :
          tables' = [tables EXCEPT ![ref].value = value, ![ref].changed = TRUE]
    /\ mutations' = mutations + 1
    /\ UNCHANGED <<lastReturned, accesses, builds>>
    /\ UNCHANGED handlerVars

HandlerInit ==
    /\ diagramConfiguration \in
          [needsClientLayout : BOOLEAN, layoutKind : LayoutKinds, animatedUpdate : BOOLEAN]
    /\ layoutEngine \in BOOLEAN
    /\ validator \in BOOLEAN
    /\ modelState \in { [root |-> GModelRoot(rev, "source")] :
                          rev \in {Undefined} \cup { <<n>> : n \in 0..MaxInitRevision } }
    /\ commandStack = [isDirty |-> FALSE]
    /\ calls = [c \in CallIds |-> IdleCall]

\* the configuration right after construction: nothing read yet, no table built
ConfigInit ==
    /\ tables = <<>>
    /\ lastReturned = [g \in Getters |-> <<>>]
    /\ accesses = [g \in Getters |-> 0]
    /\ builds = [g \in Getters |-> 0]
    /\ mutations = 0

Init == HandlerInit /\ ConfigInit

Next ==
    \/ \E c \in CallIds, reason \in Reasons : submitModel(c, reason)
    \/ \E c \in CallIds, reason \in Reasons : submitModelDirectly(c, reason)
    \/ \E c \in CallIds : layoutSettled(c)
    \/ \E c \in CallIds : validateSettled(c)
    \/ commandStackChanges

Spec == Init /\ [][Next]_vars

ConfigNext ==
    \/ \E getter \in Getters : access(getter)
    \/ \E ref \in DOMAIN tables : callerChanges(ref)

\* the configuration alone, beside a handler that is never called
ConfigSpecInit ==
    /\ ConfigInit
    /\ diagramConfiguration =
          [needsClientLayout |-> TRUE, layoutKind |-> "MANUAL", animatedUpdate |-> TRUE]
    /\ layoutEngine = FALSE
    /\ validator = FALSE
    /\ modelState = [root |-> GModelRoot(Undefined, "source")]
    /\ commandStack = [isDirty |-> FALSE]
    /\ calls = [c \in CallIds |-> IdleCall]

ConfigSpec == ConfigSpecInit /\ [][ConfigNext]_vars

-----------------------------------------------------------------------------
(* Properties of ModelSubmissionHandler, checked under Spec *)

\* C1: a submitModel call that returns, returns exactly
\* [RequestBoundsAction(root), SetDirtyStateAction(commandStack.isDirty, reason)] when
\* needsClientLayout is true and exactly [SetModelAction(root)] when it is false, where
\* root is the schema of the model state as createModel() and the revision increment
\* left it; the call invokes neither the layout engine nor the validator.
C1_SubmitModelResult ==
    [][ \A c \in CallIds :
          (calls[c].pc = "idle" /\ calls'[c].pc = "done" /\ calls'[c].kind = "submitModel") =>
              LET root == createSchema(modelState'.root)
              IN  /\ calls'[c].invoked.createModel = 1
                  /\ modelState'.root.revision = <<RevisionOrZero(calls'[c].created) + 1>>
                  /\ calls'[c].returned =
                        << IF diagramConfiguration.needsClientLayout
                           THEN << [kind |-> "requestBounds", newRoot |-> root],
                                   [kind |-> "setDirtyState", isDirty |-> commandStack.isDirty,
                                    reason |-> calls'[c].reason] >>
                           ELSE << [kind |-> "setModel", newRoot |-> root] >> >>
                  /\ calls'[c].invoked.layout = 0
                  /\ calls'[c].invoked.validate = 0 ]_vars

C1_Witness ==
    \E c \in CallIds :
        /\ calls[c].kind = "submitModel" /\ calls[c].returned # <<>>
        /\ diagramConfiguration.needsClientLayout
        /\ Len(calls[c].returned[1]) = 2
        /\ calls[c].returned[1][2].isDirty
        /\ calls[c].created = Undefined

\* C2: a submitModelDirectly call never invokes layoutEngine.layout() and never holds a
\* RequestBoundsAction in its result, whatever the configuration.
C2_DirectSubmissionNeverLayouts ==
    \A c \in CallIds :
        calls[c].kind = "submitModelDirectly" =>
            /\ calls[c].invoked.layout = 0
            /\ \A i \in DOMAIN calls[c].result : calls[c].result[i].kind # "requestBounds"

\* C3: when a server layout ran in a submitModelDirectly call, the root carried by the
\* call's model action is the schema of the model state as it was when layout() completed.
C3_RootSerializedAfterLayout ==
    \A c \in CallIds :
        ( /\ calls[c].kind = "submitModelDirectly"
          /\ calls[c].postLayout # NoSchema
          /\ calls[c].result # <<>> ) =>
            calls[c].result[1].newRoot = calls[c].postLayout

\* C4: the markers a submitModelDirectly call returns were computed from a root of the
\* same revision as the root its model action carries, whatever other calls ran while the
\* call was suspended.
C4_MarkersAndModelFromOneState ==
    \A c \in CallIds :
        ( /\ calls[c].kind = "submitModelDirectly"
          /\ calls[c].returned # <<>>
          /\ validator ) =>
            LET list == calls[c].returned[1]
            IN  list[Len(list)].markers.validated.revision = list[1].newRoot.revision

\* C5: the list a submitModelDirectly call returns is one model action (SetModelAction or
\* UpdateModelAction) of the call's root, then SetDirtyStateAction(commandStack.isDirty,
\* reason) iff needsClientLayout is false, then SetMarkersAction(markers, LIVE) iff a
\* validator is bound: nothing else, in this order, 1 to 3 actions.
C5_DirectResultShape ==
    [][ \A c \in CallIds :
          /\ ( /\ calls'[c].kind = "submitModelDirectly"
               /\ calls[c].result = <<>>
               /\ calls'[c].result # <<>> ) =>
                 /\ calls'[c].result[1].kind \in {"setModel", "updateModel"}
                 /\ calls'[c].result[1].newRoot = calls'[c].root
                 /\ Tail(calls'[c].result) =
                       IF ~diagramConfiguration.needsClientLayout
                       THEN << [kind |-> "setDirtyState", isDirty |-> commandStack.isDirty,
                                reason |-> calls'[c].reason] >>
                       ELSE <<>>
          /\ ( /\ calls'[c].kind = "submitModelDirectly"
               /\ calls[c].pc # "done"
               /\ calls'[c].pc = "done" ) =>
                 LET list == calls'[c].returned[1]
                     dirty == IF ~diagramConfiguration.needsClientLayout THEN 1 ELSE 0
                     marked == IF validator THEN 1 ELSE 0
                 IN  /\ Len(list) = 1 + dirty + marked
                     /\ Len(list) \in 1..3
                     /\ list[1].kind \in {"setModel", "updateModel"}
                     /\ list[1].newRoot = calls'[c].root
                     /\ dirty = 1 => /\ list[2].kind = "setDirtyState"
                                     /\ list[2].reason = calls'[c].reason
                     /\ marked = 1 => list[Len(list)] =
                            [kind |-> "setMarkers", markers |-> calls'[c].markers, reason |-> "LIVE"]
                     /\ marked = 1 => SubSeq(list, 1, Len(list) - 1) = calls[c].result ]_vars

C5_Witness ==
    \E c \in CallIds :
        /\ calls[c].kind = "submitModelDirectly" /\ calls[c].returned # <<>>
        /\ Len(calls[c].returned[1]) = 3
        /\ calls[c].returned[1][2].isDirty
        /\ calls[c].returned[1][2].reason = "operation"

\* C6: a service call that throws or rejects ends the submitModel / submitModelDirectly
\* call with that failure: nothing is returned, not even the actions pushed so far, the
\* failing service was invoked once, and the failed call never runs on.
C6_FailureIsTheOutcome ==
    [][ \A c \in CallIds :
          /\ calls'[c].failedStep # "none" =>
                /\ calls'[c].pc = "failed"
                /\ calls'[c].returned = <<>>
                /\ calls'[c].invoked[calls'[c].failedStep] = 1
          /\ calls[c].pc = "failed" =>
                /\ calls'[c].pc = "failed"
                /\ calls'[c].returned = <<>>
                /\ \A step \in DOMAIN NoSteps : calls'[c].invoked[step] <= calls[c].invoked[step] ]_vars

C6_Witness ==
    \E c \in CallIds :
        /\ calls[c].pc = "failed" /\ calls[c].failedStep = "validate"
        /\ calls[c].invoked.layout = 1
        /\ Len(calls[c].result) = 2

\* C9: a submitModel call that gets past createModel() leaves root.revision at the
\* revision createModel() left (0 if unset) plus 1, so at 1 or more; no step of a
\* submitModelDirectly call changes root.revision; submitModelDirectly emits
\* SetModelAction only for a root of revision 0 and UpdateModelAction with
\* animate = animatedUpdate otherwise, and always the latter when it began after a
\* submitModel call returned.
C9_RevisionDiscipline ==
    [][ \A c \in CallIds :
          /\ ( /\ calls[c].pc = "idle"
               /\ calls'[c].kind = "submitModel"
               /\ calls'[c].invoked.serialize = 1 ) =>
                 /\ modelState'.root.revision = <<RevisionOrZero(calls'[c].created) + 1>>
                 /\ modelState'.root.revision[1] >= 1
          /\ ( /\ calls'[c].kind = "submitModelDirectly"
               /\ calls[c].pc \notin {"done", "failed"}
               /\ calls'[c] # calls[c] ) =>
                 modelState'.root.revision = modelState.root.revision
          /\ (calls'[c].kind = "submitModelDirectly" /\ calls'[c].result # <<>>) =>
                 /\ calls'[c].result[1].kind = "setModel" => calls'[c].root.revision = <<0>>
                 /\ calls'[c].result[1].kind # "setModel" =>
                       calls'[c].result[1] =
                           [kind |-> "updateModel", newRoot |-> calls'[c].root,
                            animate |-> diagramConfiguration.animatedUpdate]
                 /\ calls'[c].afterSubmit => calls'[c].result[1].kind = "updateModel" ]_vars

C9_Witness ==
    \E c, d \in CallIds :
        /\ calls[c].kind = "submitModel" /\ calls[c].pc = "done"
        /\ calls[d].kind = "submitModelDirectly" /\ calls[d].returned # <<>> /\ calls[d].afterSubmit
        /\ calls[d].returned[1][1].kind = "updateModel"
        /\ calls[d].root.revision = <<1>>

-----------------------------------------------------------------------------
(* Properties of WorkflowDiagramConfiguration, checked under ConfigSpec *)

AllRead == \A g \in Getters : lastReturned[g] # <<>>

\* the elementTypeId of every hint of the two hint lists
DeclaredElementTypeIds(shapeHints, edgeHints) ==
    { shapeHints[i].elementTypeId : i \in DOMAIN shapeHints }
        \cup { edgeHints[i].elementTypeId : i \in DOMAIN edgeHints }

\* key is typeId or what precedes one of typeId's ':'
IsBaseTypeOf(key, typeId) ==
    Len(key) <= Len(typeId) /\ SubSeq(typeId, 1, Len(key)) = key

\* C7 (as stated): every elementTypeId the shape and edge hints declare is a key of the
\* type mapping.
C7_EveryDeclaredTypeIsAKey ==
    AllRead =>
        \A t \in DeclaredElementTypeIds(lastReturned["shapeTypeHints"][1].value,
                                        lastReturned["edgeTypeHints"][1].value) :
            t \in DOMAIN lastReturned["typeMapping"][1].value

\* C7 (amended): the hints declare exactly the nine type ids; each of them is a key of the
\* type mapping or has a base type (a ':'-prefix) that is one; CATEGORY, DefaultTypes.EDGE
\* and WEIGHTED_EDGE are the only ones that are keys themselves.
C7_EveryDeclaredTypeOrBaseIsAKey ==
    AllRead =>
        LET declared == DeclaredElementTypeIds(lastReturned["shapeTypeHints"][1].value,
                                               lastReturned["edgeTypeHints"][1].value)
            keys == DOMAIN lastReturned["typeMapping"][1].value
        IN  /\ declared = { MANUAL_TASK, AUTOMATED_TASK, FORK_NODE, JOIN_NODE, DECISION_NODE,
                            MERGE_NODE, CATEGORY, EDGE, WEIGHTED_EDGE }
            /\ \A t \in declared : \E k \in keys : IsBaseTypeOf(k, t)
            /\ declared \cap keys = {CATEGORY, EDGE, WEIGHTED_EDGE}

C7_Witness ==
    /\ AllRead
    /\ MANUAL_TASK \notin DOMAIN lastReturned["typeMapping"][1].value
    /\ TASK \in DOMAIN lastReturned["typeMapping"][1].value
    /\ Len(lastReturned["shapeTypeHints"][1].value) = 7

\* C8 (as stated): however often the getters are read, each table is built once, and every
\* read returns the table as the getter defines it, whatever callers did to tables they
\* were handed before.
C8_BuiltOnceAndImmutable ==
    \A g \in Getters :
        accesses[g] >= 1 =>
            /\ builds[g] = 1
            /\ lastReturned[g][1].value = getterBody(g)

\* C8 (amended): each table is built anew on every read of its getter, never kept, and
\* every read returns the table as the getter defines it, whatever callers did to tables
\* they were handed before.
C8_BuiltOnEveryRead ==
    \A g \in Getters :
        /\ builds[g] = accesses[g]
        /\ Cardinality({ i \in DOMAIN tables : tables[i].getter = g }) = accesses[g]
        /\ accesses[g] >= 1 => lastReturned[g][1].value = getterBody(g)

C8_Witness ==
    \E g \in Getters :
        /\ accesses[g] >= 2
        /\ lastReturned[g][1].afterChange
        /\ lastReturned[g][1].value = getterBody(g)
        /\ \E i \in DOMAIN tables : tables[i].getter = g /\ tables[i].value # getterBody(g)

====
